---- MODULE Spec2Model ----
(***************************************************************************)
(* MiLi container_utils (include/container_utils.h): find / contains over  *)
(* vector, list, set and map, insert_into, ContainerAdapterImpl,           *)
(* copy_container and AutonomousIterator.                                  *)
(*                                                                         *)
(* Containers are modelled by their traversal sequence (begin() .. end()): *)
(*   vector, list : the elements in insertion order;                       *)
(*   set          : the keys, strictly increasing (std::less);             *)
(*   map          : the <<key, mapped>> pairs, keys strictly increasing.   *)
(* An iterator is a position 1 .. Len(c)+1, Len(c)+1 being end().  A       *)
(* reference into a container is the position of the element it refers to. *)
(* Element, key and mapped values are the integers 0 .. MaxVal, ordered by *)
(* < (std::less) and compared by =; read as a pointer, 0 is NULL.  The     *)
(* nothrow overloads of find compile only where the element (for a map:    *)
(* the mapped value) is such a pointer; it is for those instantiations     *)
(* that DoFindNothrow stands.  A template instantiation the compiler       *)
(* rejects is recorded as a call whose result is IllFormed and that changes*)
(* nothing.                                                                *)
(***************************************************************************)
EXTENDS Integers, Sequences, FiniteSets, TLC

VARIABLES kind,   \* which container type `cont` is
          cont,   \* the container's traversal sequence
          hist,   \* history: the keys held at construction or inserted since
          last,   \* the call just made: op, arguments, container before, result
          it,     \* the AutonomousIterator: its _current and _end positions
          trace   \* history of the cursor: start position, steps made, UB seen

vars == <<kind, cont, hist, last, it, trace>>

\* Longest container the model builds.
MaxLen == 3
\* Largest element / key / mapped value; the values are 0 .. MaxVal.
MaxVal == 2
\* Most cursor steps (++ and --) in one behaviour.
MaxSteps == 4

\* NULL, as the nothrow overloads return it.
NULL == 0

Values == 0 .. MaxVal
Kinds == {"vector", "list", "set", "map"}
SeqKinds == {"vector", "list"}

Min(S) == CHOOSE x \in S : \A y \in S : x <= y

\* ---------------------------------------------------------------- containers

\* c.end(): the position one past the last element.
end(c) == Len(c) + 1

\* The key of one entry: value_type is pair<const Key, T> for a map, Key otherwise.
KeyOf(k, x) == IF k = "map" THEN x[1] ELSE x

Keys(k, c) == [i \in 1 .. Len(c) |-> KeyOf(k, c[i])]

KeySet(k, c) == {KeyOf(k, c[i]) : i \in 1 .. Len(c)}

RECURSIVE SortedSeq(_)
SortedSeq(S) ==
    IF S = {} THEN <<>>
    ELSE LET m == Min(S) IN <<m>> \o SortedSeq(S \ {m})

\* The contents a container of each type can hold, within the bounds.
Contents(k) ==
    CASE k \in SeqKinds -> UNION {[1 .. n -> Values] : n \in 0 .. MaxLen}
      [] k = "set" -> {SortedSeq(S) : S \in {T \in SUBSET Values : Cardinality(T) <= MaxLen}}
      [] k = "map" ->
            UNION {{[i \in 1 .. Cardinality(S) |-> <<SortedSeq(S)[i], f[SortedSeq(S)[i]]>>]
                        : f \in [S -> Values]}
                     : S \in {T \in SUBSET Values : Cardinality(T) <= MaxLen}}

\* ------------------------------------------------------- library primitives

\* std::find(first, last, value): the first position in [first, last) whose
\* element equals value, last if there is none.
RECURSIVE std_find(_, _, _, _)
std_find(c, first, lst, value) ==
    IF first = lst THEN lst
    ELSE IF c[first] = value THEN first
    ELSE std_find(c, first + 1, lst, value)

\* lower_bound of the ordered associative containers: the first position in
\* [lo, hi) whose key is not less than key, found by halving.
RECURSIVE lower_bound(_, _, _, _)
lower_bound(keys, lo, hi, key) ==
    IF lo = hi THEN lo
    ELSE LET mid == (lo + hi) \div 2 IN
         IF keys[mid] < key THEN lower_bound(keys, mid + 1, hi, key)
         ELSE lower_bound(keys, lo, mid, key)

\* Mutant: lower_bound's position taken as a match without the equivalence test.
assoc_find_unchecked(keys, key) == lower_bound(keys, 1, Len(keys) + 1, key)

\* m.find(key) / s.find(key): the position of the entry whose key is
\* equivalent to key (neither less than the other), end() if there is none.
assoc_find(keys, key) ==
    LET p == lower_bound(keys, 1, Len(keys) + 1, key) IN
    IF p = Len(keys) + 1 \/ key < keys[p] THEN Len(keys) + 1 ELSE p

\* m.count(key) / s.count(key): keys are unique, so 0 or 1.
assoc_count(keys, key) ==
    IF assoc_find(keys, key) = Len(keys) + 1 THEN 0 ELSE 1

\* c.push_back(element)
push_back(c, element) == c \o <<element>>

\* Mutant: the key goes in even when an equivalent one is present.
set_insert_multi(s, element) ==
    LET p == lower_bound(s, 1, Len(s) + 1, element) IN
    SubSeq(s, 1, p - 1) \o <<element>> \o SubSeq(s, p, Len(s))

\* s.insert(element): no change when an equivalent key is present, otherwise
\* the key goes in at its place in the order.
set_insert(s, element) ==
    LET p == lower_bound(s, 1, Len(s) + 1, element) IN
    IF p <= Len(s) /\ ~(element < s[p]) THEN s
    ELSE SubSeq(s, 1, p - 1) \o <<element>> \o SubSeq(s, p, Len(s))

\* -------------------------------------------------------------------- find

\* What a call yields: the exception it leaves with ("none": it returns), and
\* what it returns: ref, the position referred to, and val, the value there
\* (or the value returned, for the overloads that return a value).
Returned(r, v) == [ex |-> "none", ref |-> r, val |-> v]
Thrown(e) == [ex |-> e, ref |-> 0, val |-> 0]

\* Mutant: the scan keeps going and the last match wins.
RECURSIVE find_last_from(_, _, _)
find_last_from(c, i, element) ==
    IF i = 0 THEN Thrown("ElementNotFound")
    ELSE IF c[i] = element THEN Returned(i, c[i])
    ELSE find_last_from(c, i - 1, element)

find_last(c, element) == find_last_from(c, Len(c), element)

\* find(Container&, const Element&) and its const twin
find(c, element) ==
    LET i == std_find(c, 1, end(c), element) IN
    IF i = end(c) THEN Thrown("ElementNotFound")
    ELSE Returned(i, c[i])

\* find(std::map&, const Key2&) and its const twin
find_map(m, key) ==
    LET i == assoc_find(Keys("map", m), key) IN
    IF i = end(m) THEN Thrown("ElementNotFound")
    ELSE Returned(i, m[i][2])

\* find(Container&, const Element&, nothrow): returns *it, the element itself
\* converted to Element*, not its address.
find_nothrow(c, element) ==
    LET i == std_find(c, 1, end(c), element) IN
    IF i = end(c) THEN Returned(0, NULL)
    ELSE Returned(i, c[i])

\* find(std::map<Key, T*>&, const Key2&, nothrow): returns it->second, the
\* pointer stored under the key.
find_map_nothrow(m, key) ==
    LET i == assoc_find(Keys("map", m), key) IN
    IF i = end(m) THEN Returned(0, NULL)
    ELSE Returned(i, m[i][2])

\* Overload resolution of find(c, x) and find(c, x, nothrow).
Find(k, c, x) == IF k = "map" THEN find_map(c, x) ELSE find(c, x)

FindNothrow(k, c, x) ==
    IF k = "map" THEN find_map_nothrow(c, x) ELSE find_nothrow(c, x)

\* ---------------------------------------------------------------- contains

\* contains(const Container&, const Element&): try find; catch ElementNotFound.
contains(k, c, element) ==
    LET r == Find(k, c, element) IN
    IF r.ex = "none" THEN Returned(0, TRUE)
    ELSE IF r.ex = "ElementNotFound" THEN Returned(0, FALSE)
    ELSE Thrown(r.ex)

contains_vector(v, element) ==
    Returned(0, std_find(v, 1, end(v), element) # end(v))

contains_list(l, element) ==
    Returned(0, std_find(l, 1, end(l), element) # end(l))

\* Mutant: count(key) > 1 in place of > 0.
contains_map_off_by_one(m, key) == Returned(0, assoc_count(Keys("map", m), key) > 1)

contains_map(m, key) == Returned(0, assoc_count(Keys("map", m), key) > 0)

contains_set(s, key) == Returned(0, assoc_count(s, key) > 0)

\* Overload resolution of contains(c, x).  The vector and list overloads need
\* x to have exactly the container's element type (both deduce Element); with
\* an argument of another integer type holding the same value, as in
\* contains(vector<int>, 2L), the generic form is the one that matches.
Contains(k, c, x, exact) ==
    CASE k = "map" -> contains_map(c, x)
      [] k = "set" -> contains_set(c, x)
      [] k = "vector" /\ exact -> contains_vector(c, x)
      [] k = "list" /\ exact -> contains_list(c, x)
      [] OTHER -> contains(k, c, x)

\* ------------------------------------------------------------- insertion

\* A call that cannot be compiled: the container type lacks the member the
\* template body uses, so no such call exists in any program.
IllFormed == [ex |-> "ill-formed", ref |-> 0, val |-> 0]

\* Mutant: push_front in place of push_back.
insert_into_front(c, element) == <<element>> \o c

\* insert_into(Container&, const ElementType&): vectors and lists
insert_into(c, element) == push_back(c, element)

\* insert_into(std::set&, const ElementType&)
insert_into_set(s, element) == set_insert(s, element)

\* Overload resolution of insert_into(cont, element).
InsertInto(k, c, element) ==
    IF k = "set" THEN insert_into_set(c, element) ELSE insert_into(c, element)

\* insert_into(cont, element) compiles: a set has its overload, vector and
\* list have the push_back the generic form calls, a map has neither.
insert_into_compiles(k) == k = "set" \/ k \in SeqKinds

\* container.back(): a member of vector and list only.
back(k, c) ==
    IF k \in SeqKinds THEN Returned(Len(c), c[Len(c)]) ELSE IllFormed

\* ContainerAdapterImpl<T, Impl>::insert(element): insert_into(container,
\* element); return container.back().  The container after the call, and
\* what the call returns.
ContainerAdapterImpl_insert(k, c, element) ==
    IF ~insert_into_compiles(k) THEN [cont |-> c, res |-> IllFormed]
    ELSE LET c2 == InsertInto(k, c, element)
             r == back(k, c2)
         IN  [cont |-> IF r.ex = "none" THEN c2 ELSE c, res |-> r]

\* std::copy(first, last, back_insert_iterator(out)): push_back each element
\* of [first, last) in turn.
RECURSIVE std_copy(_, _, _, _)
std_copy(c, first, lst, out) ==
    IF first = lst THEN out
    ELSE std_copy(c, first + 1, lst, push_back(out, c[first]))

\* Mutant: a front_insert_iterator in place of the back_insert_iterator.
RECURSIVE copy_container_front(_, _)
copy_container_front(c1, c2) ==
    IF c1 = <<>> THEN c2 ELSE copy_container_front(Tail(c1), <<Head(c1)>> \o c2)

\* copy_container(c1, c2): the destination after the call.
copy_container(c1, c2) == std_copy(c1, 1, end(c1), c2)

\* ---------------------------------------------------------------- cursor

\* Positions an iterator of c can hold: 1 .. Len(c) are the elements, end(c)
\* is past-the-end; 0 and end(c)+1 stand for the invalid positions outside.
Positions(c) == 0 .. (Len(c) + 2)

\* ++ on the underlying iterator: defined on an element's position; undefined
\* behaviour elsewhere, after which the iterator may hold any position.
iter_increment(c, p) == IF p \in 1 .. Len(c) THEN {p + 1} ELSE Positions(c)

\* -- on the underlying iterator: defined anywhere after begin().
iter_decrement(c, p) == IF p \in 2 .. end(c) THEN {p - 1} ELSE Positions(c)

\* Values a read through an invalid iterator can give.
Garbage(k) == IF k = "map" THEN Values \X Values ELSE Values

\* Mutant: the two members initialised from the wrong arguments.
AutonomousIterator_swapped(begin, e) == [_current |-> e, _end |-> begin]

\* AutonomousIterator(const T& begin, const T& end)
AutonomousIterator(begin, e) == [_current |-> begin, _end |-> e]

\* AutonomousIterator(const AutonomousIterator<T>& other)
AI_copy(other) == [_current |-> other._current, _end |-> other._end]

\* operator ++(): the cursors the call can leave.
AI_pre_increment(c, a) ==
    {[a EXCEPT !._current = q] : q \in iter_increment(c, a._current)}

\* operator --()
AI_pre_decrement(c, a) ==
    {[a EXCEPT !._current = q] : q \in iter_decrement(c, a._current)}

\* operator ==
AI_equal(a, other) == a._current = other._current

\* operator *(): the values the call can yield.
AI_deref(k, c, a) ==
    IF a._current \in 1 .. Len(c) THEN {c[a._current]} ELSE Garbage(k)

\* operator ->()
AI_arrow(a) == a._current

\* end()
AI_end(a) == a._current = a._end

\* ------------------------------------------------------------------ state

Call(op, arg, pre, res) == [op |-> op, arg |-> arg, pre |-> pre, res |-> res]

NoCursor == [_current |-> 0, _end |-> 0]
NoTrace == [start |-> 0, stop |-> 0, fwd |-> 0, back |-> 0, ub |-> FALSE]

\* A container of any of the four types, just constructed with some contents.
Init ==
    /\ kind \in Kinds
    /\ cont \in Contents(kind)
    /\ hist = KeySet(kind, cont)
    /\ last = Call("init", 0, cont, Returned(0, 0))
    /\ it = NoCursor
    /\ trace = NoTrace

\* Mutant: the map looked up with operator[], which default-constructs an
\* entry for a missing key.
DoFind_subscript ==
    \E x \in Values :
        /\ last' = Call("find", x, cont, Find(kind, cont, x))
        /\ cont' = IF kind = "map" /\ x \notin KeySet(kind, cont) /\ Len(cont) < MaxLen
                   THEN LET p == lower_bound(Keys(kind, cont), 1, end(cont), x) IN
                        SubSeq(cont, 1, p - 1) \o <<<<x, NULL>>>> \o SubSeq(cont, p, Len(cont))
                   ELSE cont
        /\ UNCHANGED <<kind, hist, it, trace>>

\* find(cont, x); on a set, through a const reference (the non-const
\* overload cannot bind its Element& to a set's const element)
DoFind ==
    \E x \in Values :
        /\ last' = Call("find", x, cont, Find(kind, cont, x))
        /\ UNCHANGED <<kind, cont, hist, it, trace>>

\* find(cont, x, std::nothrow), the elements (mapped values) being pointers
DoFindNothrow ==
    \E x \in Values :
        /\ last' = Call("find_nothrow", x, cont, FindNothrow(kind, cont, x))
        /\ UNCHANGED <<kind, cont, hist, it, trace>>

\* contains(cont, x), x of the element type or of another comparable type
DoContains ==
    \E x \in Values, exact \in BOOLEAN :
        /\ last' = Call("contains", x, cont, Contains(kind, cont, x, exact))
        /\ UNCHANGED <<kind, cont, hist, it, trace>>

\* insert_into(cont, x)
DoInsertInto ==
    \E x \in Values :
        /\ IF insert_into_compiles(kind)
           THEN /\ Len(InsertInto(kind, cont, x)) <= MaxLen
                /\ cont' = InsertInto(kind, cont, x)
                /\ hist' = hist \cup {x}
                /\ last' = Call("insert_into", x, cont, Returned(0, 0))
           ELSE /\ last' = Call("insert_into", x, cont, IllFormed)
                /\ UNCHANGED <<cont, hist>>
        /\ UNCHANGED <<kind, it, trace>>

\* ContainerAdapterImpl<T, Impl>(cont).insert(x)
DoAdapterInsert ==
    \E x \in Values :
        LET r == ContainerAdapterImpl_insert(kind, cont, x) IN
        /\ Len(r.cont) <= MaxLen
        /\ cont' = r.cont
        /\ hist' = IF r.res.ex = "none" THEN hist \cup {x} ELSE hist
        /\ last' = Call("adapter_insert", x, cont, r.res)
        /\ UNCHANGED <<kind, it, trace>>

\* The destinations copy_container is tried on: an empty one, and ones that
\* already hold an element of the source's value type.
Destinations(c) == {<<>>} \cup {<<c[i]>> : i \in 1 .. Len(c)}

\* copy_container(cont, d), d a vector or a list (back_insert_iterator needs
\* push_back)
DoCopyContainer ==
    \E d \in Destinations(cont) :
        /\ last' = Call("copy_container", d, cont, Returned(0, copy_container(cont, d)))
        /\ UNCHANGED <<kind, cont, hist, it, trace>>

Next ==
    \/ DoFind
    \/ DoFindNothrow
    \/ DoContains
    \/ DoInsertInto
    \/ DoAdapterInsert
    \/ DoCopyContainer

Spec == Init /\ [][Next]_vars

\* The containers the cursor is run over: one of each type and length, the
\* i-th entry holding (i - 1) mod (MaxVal + 1).
Item(k, i) ==
    LET v == (i - 1) % (MaxVal + 1) IN IF k = "map" THEN <<v, v>> ELSE v

CursorContents(k) ==
    {c \in Contents(k) : \A i \in 1 .. Len(c) : c[i] = Item(k, i)}

\* A cursor just constructed over a range [s, e) of a container.
CursorInit ==
    /\ kind \in Kinds
    /\ cont \in CursorContents(kind)
    /\ hist = KeySet(kind, cont)
    /\ \E s \in 1 .. end(cont) : \E e \in s .. end(cont) :
          /\ it = AutonomousIterator(s, e)
          /\ trace = [start |-> s, stop |-> e, fwd |-> 0, back |-> 0, ub |-> FALSE]
          /\ last = Call("construct", s, cont, Returned(0, e))

Stepped(dir, defined) ==
    [trace EXCEPT !.fwd = IF dir = "fwd" THEN @ + 1 ELSE @,
                  !.back = IF dir = "back" THEN @ + 1 ELSE @,
                  !.ub = @ \/ ~defined]

\* ++cursor
PreIncrement ==
    /\ trace.fwd + trace.back < MaxSteps
    /\ \E n \in AI_pre_increment(cont, it) :
          /\ it' = n
          /\ last' = Call("pre_increment", 0, cont, Returned(0, n))
    /\ trace' = Stepped("fwd", it._current \in 1 .. Len(cont))
    /\ UNCHANGED <<kind, cont, hist>>

\* cursor++: const ret(*this); ++(*this); return ret
PostIncrement ==
    /\ trace.fwd + trace.back < MaxSteps
    /\ \E n \in AI_pre_increment(cont, it) :
          /\ it' = n
          /\ last' = Call("post_increment", 0, cont, Returned(0, AI_copy(it)))
    /\ trace' = Stepped("fwd", it._current \in 1 .. Len(cont))
    /\ UNCHANGED <<kind, cont, hist>>

\* --cursor
PreDecrement ==
    /\ trace.fwd + trace.back < MaxSteps
    /\ \E n \in AI_pre_decrement(cont, it) :
          /\ it' = n
          /\ last' = Call("pre_decrement", 0, cont, Returned(0, n))
    /\ trace' = Stepped("back", it._current \in 2 .. end(cont))
    /\ UNCHANGED <<kind, cont, hist>>

\* cursor--
PostDecrement ==
    /\ trace.fwd + trace.back < MaxSteps
    /\ \E n \in AI_pre_decrement(cont, it) :
          /\ it' = n
          /\ last' = Call("post_decrement", 0, cont, Returned(0, AI_copy(it)))
    /\ trace' = Stepped("back", it._current \in 2 .. end(cont))
    /\ UNCHANGED <<kind, cont, hist>>

\* *cursor
Dereference ==
    /\ \E v \in AI_deref(kind, cont, it) :
          last' = Call("dereference", 0, cont, Returned(it._current, v))
    /\ trace' = [trace EXCEPT !.ub = @ \/ it._current \notin 1 .. Len(cont)]
    /\ UNCHANGED <<kind, cont, hist, it>>

CursorNext ==
    \/ PreIncrement
    \/ PostIncrement
    \/ PreDecrement
    \/ PostDecrement
    \/ Dereference

CursorSpec == CursorInit /\ [][CursorNext]_vars

\* ----------------------------------------------------------------- claims

LookupOps == {"find", "find_nothrow", "contains"}

\* The positions of the entries of c whose key equals x.
Matches(k, c, x) == {i \in 1 .. Len(c) : KeyOf(k, c[i]) = x}

\* The generic linear-scan definition of a lookup: from begin() to end(),
\* each entry's key compared to x by equality, first match wins.
LinearScan(k, c, x) == std_find(Keys(k, c), 1, end(c), x)

\* C1: for every container type, content and target, contains returns
\* without raising, returns a boolean, and returns true exactly when the
\* signaling find on the same container and target returns without raising.
C1_ContainsIffFindSucceeds ==
    last.op = "contains" =>
        /\ last.res.ex = "none"
        /\ last.res.val \in BOOLEAN
        /\ (last.res.val <=> Find(kind, last.pre, last.arg).ex = "none")

C1_Witness ==
    /\ last.op = "contains"
    /\ kind = "map"
    /\ Len(last.pre) >= 2
    /\ last.res.val = TRUE

\* C2: the signaling find raises ElementNotFound exactly when no entry
\* matches the target and raises nothing else; otherwise it refers to the
\* first matching element of a vector, list or set, and to the value stored
\* under the key for a map.
C2_FindSignalsOrReturnsFirst ==
    last.op = "find" =>
        LET hits == Matches(kind, last.pre, last.arg) IN
        /\ last.res.ex \in {"none", "ElementNotFound"}
        /\ (last.res.ex = "ElementNotFound" <=> hits = {})
        /\ hits # {} =>
              /\ last.res.ref = Min(hits)
              /\ last.res.val = IF kind = "map" THEN last.pre[Min(hits)][2]
                                ELSE last.pre[Min(hits)]

C2_Witness ==
    /\ last.op = "find"
    /\ kind = "list"
    /\ Cardinality(Matches(kind, last.pre, last.arg)) >= 2
    /\ last.res.ref = 2

\* C3: the non-signaling find never raises; it returns NULL exactly when the
\* signaling find on the same container and target raises ElementNotFound,
\* and otherwise yields the same found element/value as the signaling find.
C3_NothrowAgreesWithSignaling ==
    last.op = "find_nothrow" =>
        LET s == Find(kind, last.pre, last.arg) IN
        /\ last.res.ex = "none"
        /\ (last.res.val = NULL <=> s.ex = "ElementNotFound")
        /\ s.ex = "none" => (last.res.ref = s.ref /\ last.res.val = s.val)

\* C4: for map and set, the lookups that use the container's own primitive
\* (contains on both, find on map) give the found / not-found outcome, and
\* the found entry, of the generic linear scan.
C4_NativeLookupEqualsLinearScan ==
    /\ (last.op = "contains" /\ kind \in {"map", "set"}) =>
          (last.res.val <=> LinearScan(kind, last.pre, last.arg) # end(last.pre))
    /\ (last.op = "find" /\ kind = "map") =>
          LET i == LinearScan(kind, last.pre, last.arg) IN
          /\ (last.res.ex = "none" <=> i # end(last.pre))
          /\ i # end(last.pre) => (last.res.ref = i /\ last.res.val = last.pre[i][2])

C4_Witness ==
    /\ last.op = "find"
    /\ kind = "map"
    /\ Len(last.pre) = MaxLen
    /\ last.res.ex = "none"
    /\ last.res.ref = MaxLen

\* C5: insert_into on a set returns normally; with an element already in
\* the set the set and its size are unchanged, with a new element the set is
\* the old one plus that element; so a set holds each value it was built
\* with or was given since exactly once.
C5_SetInsert ==
    /\ (last.op = "insert_into" /\ kind = "set") =>
          /\ last.res.ex = "none"
          /\ last.arg \in KeySet(kind, last.pre) =>
                (cont = last.pre /\ Len(cont) = Len(last.pre))
          /\ last.arg \notin KeySet(kind, last.pre) =>
                /\ KeySet(kind, cont) = KeySet(kind, last.pre) \cup {last.arg}
                /\ Len(cont) = Len(last.pre) + 1
    /\ kind = "set" => (KeySet(kind, cont) = hist /\ Len(cont) = Cardinality(hist))

C5_Witness ==
    /\ last.op = "insert_into"
    /\ kind = "set"
    /\ last.arg \in KeySet(kind, last.pre)
    /\ Len(cont) >= 2

\* C6: insert_into on a vector or list leaves the previous sequence with the
\* element appended last, whether or not an equal element was there.
C6_SequenceInsertAppends ==
    (last.op = "insert_into" /\ kind \in SeqKinds) =>
        /\ Len(cont) = Len(last.pre) + 1
        /\ SubSeq(cont, 1, Len(last.pre)) = last.pre
        /\ cont[Len(cont)] = last.arg

C6_Witness ==
    /\ last.op = "insert_into"
    /\ kind = "vector"
    /\ Len(last.pre) >= 2
    /\ last.arg \in KeySet(kind, last.pre)
    /\ last.pre[1] # last.arg

\* C7: copy_container(A, B) with B empty, B a vector or a list and A of any
\* of the four types, leaves B's traversal equal to A's.
C7_CopyIntoEmpty ==
    (last.op = "copy_container" /\ last.arg = <<>>) => last.res.val = last.pre

C7_Witness ==
    /\ last.op = "copy_container"
    /\ last.arg = <<>>
    /\ kind = "map"
    /\ Len(last.pre) >= 2

\* C8: end() is true exactly when _current equals the end position the
\* cursor was built with; a cursor built over [start, stop) and only advanced
\* forward, k times, is exhausted exactly when k = stop - start (at once for
\* an empty range).
C8_CursorExhaustion ==
    ~trace.ub =>
        /\ it._end = trace.stop
        /\ (AI_end(it) <=> it._current = trace.stop)
        /\ trace.back = 0 => (AI_end(it) <=> trace.fwd = trace.stop - trace.start)

C8_Witness ==
    /\ ~trace.ub
    /\ trace.back = 0
    /\ trace.fwd = MaxLen
    /\ trace.start = 1
    /\ AI_end(it)

\* C9: insert(e) through a ContainerAdapterImpl returns a reference to an
\* element equal to e: the new last element of a vector or list, the new or
\* the already present equal element of a set.
C9_HandleReturnsInserted ==
    last.op = "adapter_insert" =>
        /\ last.res.ex = "none"
        /\ last.res.ref \in 1 .. Len(cont)
        /\ cont[last.res.ref] = last.arg
        /\ last.res.val = last.arg
        /\ kind \in SeqKinds => last.res.ref = Len(cont)

\* The part of C9 the code delivers: through a handle on a vector or list,
\* insert(e) appends e and returns a reference to the new last element.
C9_SequenceHandle ==
    (last.op = "adapter_insert" /\ kind \in SeqKinds) =>
        /\ last.res.ex = "none"
        /\ cont = last.pre \o <<last.arg>>
        /\ last.res.ref = Len(cont)
        /\ last.res.val = last.arg

\* C10: find, find with nothrow and contains leave the container as it was,
\* found or not; a failed lookup on a map adds no entry.
C10_LookupDoesNotMutate ==
    last.op \in LookupOps => cont = last.pre

C10_Witness ==
    /\ last.op = "find"
    /\ kind = "map"
    /\ last.res.ex = "ElementNotFound"
    /\ Len(cont) >= 1
    /\ Len(cont) < MaxLen

====
